---------------------------- MODULE Spec2Model ----------------------------
(***************************************************************************)
(* Transfer-matrix builders of dagflow-detector:                           *)
(*   - RebinMatrix          (src/detector/RebinMatrix.py), the reference   *)
(*     path _calc_rebin_matrix_python and the compiled path                *)
(*     _calc_rebin_matrix_numba, each filling the output buffer of its own *)
(*     node from the same pair of edge arrays;                             *)
(*   - AxisDistortionMatrix (src/detector/AxisDistortionMatrix.py), the    *)
(*     two-phase merge scan _axisdistortion_python.                        *)
(*                                                                         *)
(* Floating-point edges are modelled by integers (the fixtures of the test *)
(* suite are scaled by ten), so every comparison and difference is exact.  *)
(* A relative tolerance is a pair <<numerator, denominator>>; a distortion *)
(* matrix cell is a pair <<numerator, denominator>> as well, the           *)
(* denominator being the width_coarse the code divided by.  Arrays are     *)
(* TLA+ sequences read through At, which indexes from zero and wraps a     *)
(* negative index the way numpy (and numba) do.                            *)
(***************************************************************************)
EXTENDS Integers, Sequences, FiniteSets

VARIABLES
    edges_old,        \* RebinMatrix input "edges_old"
    edges_new,        \* RebinMatrix input "edges_new"
    atol,             \* RebinMatrix._atol
    rtol,             \* RebinMatrix._rtol, <<numerator, denominator>>
    py,               \* the call of _calc_rebin_matrix_python (node of mode "python")
    nb,               \* the call of _calc_rebin_matrix_numba  (node of mode "numba")
    builds,           \* number of evaluations of the two rebin nodes so far
    allok,            \* every completed rebin evaluation so far returned normally
    edges_original,   \* AxisDistortionMatrix input "EdgesOriginal"
    edges_modified,   \* AxisDistortionMatrix input "EdgesModified"
    edges_backwards,  \* AxisDistortionMatrix input "EdgesModifiedBackwards"
    ad,               \* the call of _axisdistortion_python
    meta              \* the meta-node under construction: its node lists and connections

rebinVars == <<edges_old, edges_new, atol, rtol, py, nb, builds, allok>>
distVars  == <<edges_original, edges_modified, edges_backwards, ad>>
metaVars  == <<meta>>
vars      == <<edges_old, edges_new, atol, rtol, py, nb, builds, allok,
               edges_original, edges_modified, edges_backwards, ad, meta>>

---------------------------------------------------------------------------
(* Bounds of the model *)

\* largest edge value of the enumerated inputs
MaxEdge == 4

\* largest number of bins of an enumerated old-edge or distortion array
MaxBins == 4

\* largest number of bins of an enumerated new-edge array
MaxNewBins == 3

\* largest absolute tolerance
MaxAtol == 1

\* evaluations of the rebin nodes into the same buffers
MaxBuilds == 2

\* largest edge value of the inputs of the re-evaluated rebin nodes and of the
\* calls followed to their end
MaxEdgeAgain == 3

\* the longest node list of a meta-node
MaxNodes == 2

---------------------------------------------------------------------------
(* Arrays *)

Abs(x) == IF x < 0 THEN -x ELSE x

Min(a, b) == IF a < b THEN a ELSE b

Max(a, b) == IF a < b THEN b ELSE a

\* a[i] of a one-dimensional array, index from zero, negative index from the end
At(a, i) == IF i < 0 THEN a[Len(a) + i + 1] ELSE a[i + 1]

\* a.size
Size(a) == Len(a)

StrictlyIncreasing(a) == \A i \in 1..(Len(a) - 1) : a[i] < a[i + 1]

\* the elements of a finite set of integers in increasing order
RECURSIVE Sorted(_)
Sorted(S) ==
    IF S = {}
    THEN <<>>
    ELSE LET m == CHOOSE x \in S : \A y \in S : x <= y
         IN  <<m>> \o Sorted(S \ {m})

\* the strictly increasing arrays of n+1 edges with values in 0..top
EdgeArraysTo(n, top) ==
    {Sorted(S) : S \in {T \in SUBSET (0..top) : Cardinality(T) = n + 1}}

\* the strictly increasing arrays of n+1 edges with values in 0..MaxEdge
EdgeArrays(n) == EdgeArraysTo(n, MaxEdge)

\* the array -a[n], ..., -a[0]
Mirror(a) == [i \in 1..Len(a) |-> 0 - a[Len(a) + 1 - i]]

\* the strictly increasing arrays of n+1 edges with values in -top..0
EdgeArraysBelow(n, top) == {Mirror(a) : a \in EdgeArraysTo(n, top)}

\* an (m, n) buffer filled with z
Filled(m, n, z) == [i \in 0..(m - 1) |-> [j \in 0..(n - 1) |-> z]]

Rows(mat) == DOMAIN mat

Cols(mat) == IF DOMAIN mat = {} THEN {} ELSE DOMAIN mat[0]

\* numpy.isclose(a, b, atol=atol, rtol=rtol): |a - b| <= atol + rtol * |b|
isclose(a, b, at, rt) == Abs(a - b) * rt[2] <= at * rt[2] + rt[1] * Abs(b)

---------------------------------------------------------------------------
(* RebinMatrix: the state of one call of a rebin builder *)

\* the locals of a call that has just been entered with output buffer buf;
\* buffer0, written and steps are history: the buffer as the caller supplied
\* it, the cells this call has assigned, and the number of evaluations of the
\* while condition
RebinCall(buf) ==
    [pc            |-> "assert",
     raised        |-> "none",
     at            |-> "none",
     inew          |-> 0,
     iold          |-> 0,
     edge_old      |-> 0,
     edge_new      |-> 0,
     edge_new_prev |-> 0,
     stepper_old   |-> 0,
     steps         |-> 0,
     rebin_matrix  |-> buf,
     buffer0       |-> buf,
     written       |-> {}]

\* the call ends by raising exc at the place named where
Raise(r, exc, where) == [r EXCEPT !.pc = "done", !.raised = exc, !.at = where]

\* assert edges_new[0] >= edges_old[0] or isclose(edges_new[0], edges_old[0], ...)
python_assert_first(old, new, at, rt) ==
    At(new, 0) >= At(old, 0) \/ isclose(At(new, 0), At(old, 0), at, rt)

\* python_assert_last left out
python_assert_last_skipped(old, new, at, rt) == TRUE

\* assert edges_new[-1] <= edges_old[-1] or isclose(edges_new[-1], edges_old[-1], ...)
python_assert_last(old, new, at, rt) ==
    At(new, -1) <= At(old, -1) \/ isclose(At(new, -1), At(old, -1), at, rt)

\* the two asserts and the initialisation up to the first next(stepper_old)
calc_rebin_matrix_python_assert(r, old, new, at, rt) ==
    IF ~python_assert_first(old, new, at, rt)
    THEN Raise(r, "AssertionError", "first")
    ELSE IF ~python_assert_last(old, new, at, rt)
    THEN Raise(r, "AssertionError", "last")
    ELSE [r EXCEPT !.pc = "for",
                   !.inew = 0,
                   !.iold = 0,
                   !.edge_old = At(old, 0),
                   !.edge_new_prev = At(new, 0),
                   !.stepper_old = 1]

\* for inew, edge_new in enumerate(edges_new[1:], 1): the next item, or the
\* end of the loop and the return
calc_rebin_matrix_python_for(r, new) ==
    IF r.inew + 1 <= Size(new) - 1
    THEN [r EXCEPT !.pc = "while",
                   !.inew = r.inew + 1,
                   !.edge_new = At(new, r.inew + 1)]
    ELSE [r EXCEPT !.pc = "done"]

\* python_while_condition without the comparison edge_old < edge_new
python_while_condition_not_close(r, at, rt) ==
    ~isclose(r.edge_new, r.edge_old, at, rt)

\* while edge_old < edge_new and not isclose(edge_new, edge_old, ...)
python_while_condition(r, at, rt) ==
    r.edge_old < r.edge_new /\ ~isclose(r.edge_new, r.edge_old, at, rt)

\* python_if_condition without the comparison with edge_new_prev
python_if_condition_always(r, at, rt) == TRUE

\* if edge_old >= edge_new_prev or isclose(edge_old, edge_new_prev, ...)
python_if_condition(r, at, rt) ==
    r.edge_old >= r.edge_new_prev \/ isclose(r.edge_old, r.edge_new_prev, at, rt)

\* python_setitem with the row inew for inew - 1
python_setitem_row_inew(r) ==
    IF r.inew \in Rows(r.rebin_matrix) /\ r.iold \in Cols(r.rebin_matrix)
    THEN [r EXCEPT !.rebin_matrix[r.inew][r.iold] = 1,
                   !.written = r.written \cup {<<r.inew, r.iold>>}]
    ELSE Raise(r, "IndexError", "setitem")

\* rebin_matrix[inew - 1, iold] = 1.0 on a numpy array: IndexError off the shape
python_setitem(r) ==
    IF (r.inew - 1) \in Rows(r.rebin_matrix) /\ r.iold \in Cols(r.rebin_matrix)
    THEN [r EXCEPT !.rebin_matrix[r.inew - 1][r.iold] = 1,
                   !.written = r.written \cup {<<r.inew - 1, r.iold>>}]
    ELSE Raise(r, "IndexError", "setitem")

\* iold, edge_old = next(stepper_old), then the test iold >= nold
python_next(r, old) ==
    IF r.stepper_old >= Size(old)
    THEN Raise(r, "StopIteration", "next")
    ELSE LET s == [r EXCEPT !.iold = r.stepper_old,
                            !.edge_old = At(old, r.stepper_old),
                            !.stepper_old = r.stepper_old + 1]
         IN  IF s.iold >= Size(old)
             THEN Raise(s, "RuntimeError", "outer")
             ELSE s

\* calc_rebin_matrix_python_while without the check after the loop
calc_rebin_matrix_python_while_unchecked(r, old, at, rt) ==
    LET t == [r EXCEPT !.steps = r.steps + 1]
    IN  IF python_while_condition(t, at, rt)
        THEN LET w == IF python_if_condition(t, at, rt) THEN python_setitem(t) ELSE t
             IN  IF w.pc = "done" THEN w ELSE python_next(w, old)
        ELSE [t EXCEPT !.pc = "for"]

\* one evaluation of the while condition: the loop body when it is true,
\* the check after the loop when it is false
calc_rebin_matrix_python_while(r, old, at, rt) ==
    LET t == [r EXCEPT !.steps = r.steps + 1]
    IN  IF python_while_condition(t, at, rt)
        THEN LET w == IF python_if_condition(t, at, rt) THEN python_setitem(t) ELSE t
             IN  IF w.pc = "done" THEN w ELSE python_next(w, old)
        ELSE IF ~isclose(t.edge_new, t.edge_old, at, rt)
        THEN Raise(t, "RuntimeError", "inner")
        ELSE [t EXCEPT !.pc = "for"]

---------------------------------------------------------------------------
(* RebinMatrix, compiled path: the same scan with asserts in place of the  *)
(* raises.  njit code does not check array bounds: a store past the shape  *)
(* goes to the flat position the strides give, inside the buffer or not.   *)
(* Each operator gives the set of records the call can be in afterwards.   *)

\* assert edges_new[0] >= edges_old[0] or isclose(edges_new[0], edges_old[0], ...)
numba_assert_first(old, new, at, rt) ==
    At(new, 0) >= At(old, 0) \/ isclose(At(new, 0), At(old, 0), at, rt)

\* assert edges_new[-1] <= edges_old[-1] or isclose(edges_new[-1], edges_old[-1], ...)
numba_assert_last(old, new, at, rt) ==
    At(new, -1) <= At(old, -1) \/ isclose(At(new, -1), At(old, -1), at, rt)

calc_rebin_matrix_numba_assert(r, old, new, at, rt) ==
    IF ~numba_assert_first(old, new, at, rt)
    THEN {Raise(r, "AssertionError", "first")}
    ELSE IF ~numba_assert_last(old, new, at, rt)
    THEN {Raise(r, "AssertionError", "last")}
    ELSE {[r EXCEPT !.pc = "for",
                    !.inew = 0,
                    !.iold = 0,
                    !.edge_old = At(old, 0),
                    !.edge_new_prev = At(new, 0),
                    !.stepper_old = 1]}

calc_rebin_matrix_numba_for(r, new) ==
    IF r.inew + 1 <= Size(new) - 1
    THEN {[r EXCEPT !.pc = "while",
                    !.inew = r.inew + 1,
                    !.edge_new = At(new, r.inew + 1)]}
    ELSE {[r EXCEPT !.pc = "done"]}

\* numba_while_condition without the tolerance test
numba_while_condition_exact(r, at, rt) == r.edge_old < r.edge_new

\* while edge_old < edge_new and not isclose(edge_new, edge_old, ...)
numba_while_condition(r, at, rt) ==
    r.edge_old < r.edge_new /\ ~isclose(r.edge_new, r.edge_old, at, rt)

\* if edge_old >= edge_new_prev or isclose(edge_old, edge_new_prev, ...)
numba_if_condition(r, at, rt) ==
    r.edge_old >= r.edge_new_prev \/ isclose(r.edge_old, r.edge_new_prev, at, rt)

\* rebin_matrix[inew - 1, iold] = 1.0 without a bounds check
numba_setitem(r) ==
    LET m    == Cardinality(Rows(r.rebin_matrix))
        n    == Cardinality(Cols(r.rebin_matrix))
        flat == (r.inew - 1) * n + r.iold
    IN  IF (r.inew - 1) \in Rows(r.rebin_matrix) /\ r.iold \in Cols(r.rebin_matrix)
        THEN {[r EXCEPT !.rebin_matrix[r.inew - 1][r.iold] = 1,
                        !.written = r.written \cup {<<r.inew - 1, r.iold>>}]}
        ELSE IF flat >= 0 /\ flat < m * n
        THEN {[r EXCEPT !.rebin_matrix[flat \div n][flat % n] = 1,
                        !.written = r.written \cup {<<flat \div n, flat % n>>}]}
        ELSE {r, Raise(r, "MemoryFault", "setitem")}

\* iold, edge_old = next(stepper_old), then assert iold < nold
numba_next(r, old) ==
    IF r.stepper_old >= Size(old)
    THEN Raise(r, "StopIteration", "next")
    ELSE LET s == [r EXCEPT !.iold = r.stepper_old,
                            !.edge_old = At(old, r.stepper_old),
                            !.stepper_old = r.stepper_old + 1]
         IN  IF ~(s.iold < Size(old))
             THEN Raise(s, "AssertionError", "outer")
             ELSE s

calc_rebin_matrix_numba_while(r, old, at, rt) ==
    LET t == [r EXCEPT !.steps = r.steps + 1]
    IN  IF numba_while_condition(t, at, rt)
        THEN LET ws == IF numba_if_condition(t, at, rt) THEN numba_setitem(t) ELSE {t}
             IN  {IF w.pc = "done" THEN w ELSE numba_next(w, old) : w \in ws}
        ELSE IF ~isclose(t.edge_new, t.edge_old, at, rt)
        THEN {Raise(t, "AssertionError", "inner")}
        ELSE {[t EXCEPT !.pc = "for"]}

---------------------------------------------------------------------------
(* AxisDistortionMatrix: _axisdistortion_python *)

\* the call of a node that is not evaluated
DistIdle == [pc |-> "idle"]

\* no meta-node is being assembled
MetaIdle == [kind |-> "none"]

\* threshold = -1e10, below every edge (TLC integers have 32 bits)
threshold == -1000000000

\* a cell holding 0.0
Zero == <<0, 1>>

\* the call as it is entered with output buffer buf; buffer0 is history
DistCall(buf) ==
    [pc           |-> "enter",
     raised       |-> "none",
     undershoot   |-> FALSE,
     right_axis   |-> 0,
     idxx0        |-> 0,
     idxx1        |-> 0,
     idxy         |-> 0,
     leftx_fine   |-> 0,
     lefty_fine   |-> 0,
     rightx_fine  |-> 0,
     righty_fine  |-> 0,
     width_coarse |-> 0,
     steps        |-> 0,
     matrix       |-> buf,
     buffer0      |-> buf,
     written      |-> {}]

\* axisdistortion_python_enter without matrix[:, :] = 0.0
axisdistortion_python_enter_no_fill(r) ==
    [r EXCEPT !.pc = "seek",
              !.right_axis = 0,
              !.idxx0 = -1,
              !.idxx1 = -1,
              !.idxy = 0,
              !.leftx_fine = threshold,
              !.lefty_fine = threshold]

\* lines 95..107: matrix[:, :] = 0.0 and the initial cursors
axisdistortion_python_enter(r) ==
    [r EXCEPT !.pc = "seek",
              !.matrix = [i \in Rows(r.matrix) |-> [j \in Cols(r.matrix) |-> Zero]],
              !.right_axis = 0,
              !.idxx0 = -1,
              !.idxx1 = -1,
              !.idxy = 0,
              !.leftx_fine = threshold,
              !.lefty_fine = threshold]

\* seek_condition without the test of lefty_fine
seek_condition_no_target(r, original) ==
    \/ r.leftx_fine <= threshold
    \/ r.leftx_fine < At(original, 0)

\* the condition of the first while loop; min_original and min_target are
\* both edges_original[0] because edges_target = edges_original
seek_condition(r, original) ==
    \/ r.leftx_fine <= threshold
    \/ r.leftx_fine < At(original, 0)
    \/ r.lefty_fine < At(original, 0)

\* isx = edges_original[idxx0 + 1] < edges_backwards[idxx1 + 1]
isx(r, original, backwards) ==
    At(original, r.idxx0 + 1) < At(backwards, r.idxx1 + 1)

\* one evaluation of the first while loop (lines 108..121) and, when its
\* condition is false, line 123
axisdistortion_python_seek(r, original, modified, backwards) ==
    LET nbinsx == Size(original) - 1
    IN  IF seek_condition(r, original)
        THEN IF isx(r, original, backwards)
             THEN LET s == [r EXCEPT !.leftx_fine = At(original, 0),
                                     !.lefty_fine = At(modified, 0),
                                     !.idxx0 = r.idxx0 + 1,
                                     !.steps = r.steps + 1]
                  IN  IF s.idxx0 >= nbinsx
                      THEN [s EXCEPT !.pc = "done", !.undershoot = TRUE]
                      ELSE s
             ELSE LET s == [r EXCEPT !.leftx_fine = At(backwards, 0),
                                     !.lefty_fine = At(original, 0),
                                     !.idxx1 = r.idxx1 + 1,
                                     !.steps = r.steps + 1]
                  IN  IF s.idxx1 >= nbinsx
                      THEN [s EXCEPT !.pc = "done", !.undershoot = TRUE]
                      ELSE s
        ELSE [r EXCEPT !.pc = "scan",
                       !.width_coarse =
                           At(original, r.idxx0 + 1) - At(original, r.idxx0)]

\* while lefty_fine >= edges_target[idxy + 1]: if (idxy := idxy + 1) > nbinsy: break
\* the value of idxy after the loop, or -1 when edges_target[idxy + 1] is read
\* past the end of the array (IndexError)
RECURSIVE advance_idxy(_, _, _)
advance_idxy(lefty, idxy, target) ==
    IF idxy + 1 > Size(target) - 1
    THEN -1
    ELSE IF lefty >= At(target, idxy + 1)
    THEN IF idxy + 1 > Size(target) - 1
         THEN idxy + 1
         ELSE advance_idxy(lefty, idxy + 1, target)
    ELSE idxy

\* right_is_original with <= for <: a tie goes to the original axis
right_is_original_le(r, original, backwards) ==
    At(original, r.idxx0 + 1) <= At(backwards, r.idxx1 + 1)

\* lines 128..135: the right edge of the fine segment and the axis it is on
right_is_original(r, original, backwards) ==
    At(original, r.idxx0 + 1) < At(backwards, r.idxx1 + 1)

\* matrix[idxy, idxx0] = (rightx_fine - leftx_fine) / width_coarse; the column
\* index -1 is the last column; IndexError off the shape
axisdistortion_setitem(r) ==
    LET col == IF r.idxx0 < 0 THEN Cardinality(Cols(r.matrix)) + r.idxx0 ELSE r.idxx0
    IN  IF r.idxy \in Rows(r.matrix) /\ col \in Cols(r.matrix)
        THEN [r EXCEPT !.matrix[r.idxy][col] =
                           <<r.rightx_fine - r.leftx_fine, r.width_coarse>>,
                       !.written = r.written \cup {<<r.idxy, col>>}]
        ELSE [r EXCEPT !.pc = "done", !.raised = "IndexError"]

\* axisdistortion_advance moving the cursor of axis B with that of axis A
axisdistortion_advance_both(r, original) ==
    LET nbinsx == Size(original) - 1
    IN  IF r.right_axis = 0
        THEN IF r.idxx0 + 1 >= nbinsx
             THEN [r EXCEPT !.pc = "done", !.idxx0 = r.idxx0 + 1]
             ELSE [r EXCEPT !.idxx0 = r.idxx0 + 1,
                            !.idxx1 = Min(r.idxx1 + 1, nbinsx - 1),
                            !.width_coarse =
                                At(original, r.idxx0 + 2) - At(original, r.idxx0 + 1),
                            !.leftx_fine = r.rightx_fine,
                            !.lefty_fine = r.righty_fine]
        ELSE IF r.idxx1 + 1 >= nbinsx
             THEN [r EXCEPT !.pc = "done", !.idxx1 = r.idxx1 + 1]
             ELSE [r EXCEPT !.idxx1 = r.idxx1 + 1,
                            !.leftx_fine = r.rightx_fine,
                            !.lefty_fine = r.righty_fine]

\* axisdistortion_advance without line 159: width_coarse keeps its first value
axisdistortion_advance_keep_width(r, original) ==
    LET nbinsx == Size(original) - 1
    IN  IF r.right_axis = 0
        THEN IF r.idxx0 + 1 >= nbinsx
             THEN [r EXCEPT !.pc = "done", !.idxx0 = r.idxx0 + 1]
             ELSE [r EXCEPT !.idxx0 = r.idxx0 + 1,
                            !.leftx_fine = r.rightx_fine,
                            !.lefty_fine = r.righty_fine]
        ELSE IF r.idxx1 + 1 >= nbinsx
             THEN [r EXCEPT !.pc = "done", !.idxx1 = r.idxx1 + 1]
             ELSE [r EXCEPT !.idxx1 = r.idxx1 + 1,
                            !.leftx_fine = r.rightx_fine,
                            !.lefty_fine = r.righty_fine]

\* lines 156..162: the cursor of the axis the right edge is on moves
axisdistortion_advance(r, original) ==
    LET nbinsx == Size(original) - 1
    IN  IF r.right_axis = 0
        THEN IF r.idxx0 + 1 >= nbinsx
             THEN [r EXCEPT !.pc = "done", !.idxx0 = r.idxx0 + 1]
             ELSE [r EXCEPT !.idxx0 = r.idxx0 + 1,
                            !.width_coarse =
                                At(original, r.idxx0 + 2) - At(original, r.idxx0 + 1),
                            !.leftx_fine = r.rightx_fine,
                            !.lefty_fine = r.righty_fine]
        ELSE IF r.idxx1 + 1 >= nbinsx
             THEN [r EXCEPT !.pc = "done", !.idxx1 = r.idxx1 + 1]
             ELSE [r EXCEPT !.idxx1 = r.idxx1 + 1,
                            !.leftx_fine = r.rightx_fine,
                            !.lefty_fine = r.righty_fine]

\* one turn of the second while loop (lines 125..162)
axisdistortion_python_scan(r, original, modified, backwards) ==
    LET a == IF right_is_original(r, original, backwards)
             THEN [r EXCEPT !.rightx_fine = At(original, r.idxx0 + 1),
                            !.righty_fine = At(modified, r.idxx0 + 1),
                            !.right_axis = 0,
                            !.steps = r.steps + 1]
             ELSE [r EXCEPT !.rightx_fine = At(backwards, r.idxx1 + 1),
                            !.righty_fine = At(original, r.idxx1 + 1),
                            !.right_axis = 1,
                            !.steps = r.steps + 1]
        y == advance_idxy(a.lefty_fine, a.idxy, original)
    IN  IF y < 0
        THEN [a EXCEPT !.pc = "done", !.raised = "IndexError",
                       !.idxy = Size(original) - 1]
        ELSE LET w == axisdistortion_setitem([a EXCEPT !.idxy = y])
             IN  IF w.pc = "done" THEN w ELSE axisdistortion_advance(w, original)

---------------------------------------------------------------------------
(* RebinMatrix nodes: two nodes, one of each mode, read the same edges_old *)
(* and edges_new outputs and fill their own "matrix" outputs.  The         *)
(* reference node is evaluated first, the compiled node after it.          *)

\* relative tolerances of the model: 0.0 (the default) and 1/4
Rtols == {<<0, 1>>, <<1, 4>>}

NBinsOld == Size(edges_old) - 1

NBinsNew == Size(edges_new) - 1

\* the first evaluation of the two nodes, on edges drawn from olds and news
InitRebinOn(olds, news) ==
    /\ edges_old \in olds
    /\ edges_new \in news
    /\ atol \in 0..MaxAtol
    /\ rtol \in Rtols
    /\ py = RebinCall(Filled(Size(edges_new) - 1, Size(edges_old) - 1, 0))
    /\ nb = RebinCall(Filled(Size(edges_new) - 1, Size(edges_old) - 1, 0))
    /\ builds = 1
    /\ allok = TRUE
    /\ edges_original = <<>>
    /\ edges_modified = <<>>
    /\ edges_backwards = <<>>
    /\ ad = DistIdle
    /\ meta = MetaIdle

\* the first evaluation of the two nodes, on edges with values in 0..top
InitRebinTo(top) ==
    InitRebinOn(UNION {EdgeArraysTo(n, top) : n \in 1..MaxBins},
                UNION {EdgeArraysTo(m, top) : m \in 1..MaxNewBins})

\* the first evaluation of the two nodes, on edges with values in -top..0
InitRebinBelow(top) ==
    InitRebinOn(UNION {EdgeArraysBelow(n, top) : n \in 1..MaxBins},
                UNION {EdgeArraysBelow(m, top) : m \in 1..MaxNewBins})

\* RebinMatrix._fcn_python, lines 94..104 of the call
PyAssert ==
    /\ py.pc = "assert"
    /\ py' = calc_rebin_matrix_python_assert(py, edges_old, edges_new, atol, rtol)
    /\ UNCHANGED <<edges_old, edges_new, atol, rtol, nb, builds, allok>>
    /\ UNCHANGED distVars
    /\ UNCHANGED metaVars

\* the header of the for loop
PyFor ==
    /\ py.pc = "for"
    /\ py' = calc_rebin_matrix_python_for(py, edges_new)
    /\ UNCHANGED <<edges_old, edges_new, atol, rtol, nb, builds, allok>>
    /\ UNCHANGED distVars
    /\ UNCHANGED metaVars

\* one turn of the while loop, or the check that follows it
PyWhile ==
    /\ py.pc = "while"
    /\ py' = calc_rebin_matrix_python_while(py, edges_old, atol, rtol)
    /\ UNCHANGED <<edges_old, edges_new, atol, rtol, nb, builds, allok>>
    /\ UNCHANGED distVars
    /\ UNCHANGED metaVars

\* RebinMatrix._fcn_numba, lines 132..142 of the call
NbAssert ==
    /\ py.pc = "done"
    /\ nb.pc = "assert"
    /\ nb' \in calc_rebin_matrix_numba_assert(nb, edges_old, edges_new, atol, rtol)
    /\ UNCHANGED <<edges_old, edges_new, atol, rtol, py, builds, allok>>
    /\ UNCHANGED distVars
    /\ UNCHANGED metaVars

NbFor ==
    /\ nb.pc = "for"
    /\ nb' \in calc_rebin_matrix_numba_for(nb, edges_new)
    /\ UNCHANGED <<edges_old, edges_new, atol, rtol, py, builds, allok>>
    /\ UNCHANGED distVars
    /\ UNCHANGED metaVars

NbWhile ==
    /\ nb.pc = "while"
    /\ nb' \in calc_rebin_matrix_numba_while(nb, edges_old, atol, rtol)
    /\ UNCHANGED <<edges_old, edges_new, atol, rtol, py, builds, allok>>
    /\ UNCHANGED distVars
    /\ UNCHANGED metaVars

\* both nodes are evaluated again on buffers that keep what the last
\* evaluation left: _fcn_python and _fcn_numba hand self._result.data to the
\* builders, and the edges are the data of the inputs at that time
Reevaluate(old, new) ==
    /\ edges_old' = old
    /\ edges_new' = new
    /\ py' = RebinCall(py.rebin_matrix)
    /\ nb' = RebinCall(nb.rebin_matrix)
    /\ builds' = builds + 1
    /\ allok' = (allok /\ py.raised = "none" /\ nb.raised = "none")
    /\ UNCHANGED <<atol, rtol>>
    /\ UNCHANGED distVars
    /\ UNCHANGED metaVars

\* the array behind the input edges_old changes (same size, so the outputs
\* keep their buffers)
ChangeEdgesOld ==
    /\ py.pc = "done"
    /\ nb.pc = "done"
    /\ builds < MaxBuilds
    /\ \E old \in EdgeArraysTo(NBinsOld, MaxEdgeAgain) :
          old # edges_old /\ Reevaluate(old, edges_new)

\* the array behind the input edges_new changes
ChangeEdgesNew ==
    /\ py.pc = "done"
    /\ nb.pc = "done"
    /\ builds < MaxBuilds
    /\ \E new \in EdgeArraysTo(NBinsNew, MaxEdgeAgain) :
          new # edges_new /\ Reevaluate(edges_old, new)

\* one evaluation of the two nodes on fresh buffers, the edges all in
\* 0..MaxEdge or all in -MaxEdge..0
InitRebin == InitRebinTo(MaxEdge) \/ InitRebinBelow(MaxEdge)

NextRebin ==
    \/ PyAssert
    \/ PyFor
    \/ PyWhile
    \/ NbAssert
    \/ NbFor
    \/ NbWhile

SpecRebin == InitRebin /\ [][NextRebin]_vars

\* evaluations of the two nodes, again and again as their inputs change
InitRebinAgain == InitRebinTo(MaxEdgeAgain)

NextRebinAgain ==
    \/ PyAssert
    \/ PyFor
    \/ PyWhile
    \/ NbAssert
    \/ NbFor
    \/ NbWhile
    \/ ChangeEdgesOld
    \/ ChangeEdgesNew

SpecRebinAgain == InitRebinAgain /\ [][NextRebinAgain]_vars

\* the arrays of n+1 values in 0..top, increasing or not
AnyArrays(n, top) == [1..(n + 1) -> 0..top]

\* one evaluation of the two nodes on an input edges_new that is not an edge
\* sequence: the node takes the data of its inputs as they are
InitRebinAny ==
    InitRebinOn(UNION {EdgeArraysTo(n, MaxEdgeAgain) : n \in 1..MaxBins},
                UNION {AnyArrays(m, MaxEdgeAgain) : m \in 1..MaxNewBins})

NextRebinAny ==
    \/ PyAssert
    \/ PyFor
    \/ PyWhile
    \/ NbAssert
    \/ NbFor
    \/ NbWhile

SpecRebinAny == InitRebinAny /\ [][NextRebinAny]_vars

---------------------------------------------------------------------------
(* AxisDistortionMatrix node *)

\* a matrix written as a tuple of rows
Mat(rows) == [i \in 0..(Len(rows) - 1) |->
                 [j \in 0..(Len(rows[i + 1]) - 1) |-> rows[i + 1][j + 1]]]

\* test_sets of test_AxisDistortionMatrix.py, every edge multiplied by ten
test_sets ==
    [test1 |->
        [edges          |-> <<10, 20, 30, 40, 50>>,
         edges_backward |-> <<14, 34, 38, 42, 46>>,
         edges_modified |-> <<8, 14, 18, 35, 55>>,
         matrix |-> Mat(<<
             << <<20 - 14, 10>>, <<30 - 20, 10>>, <<34 - 30, 10>>, Zero >>,
             << Zero, Zero, <<38 - 34, 10>>, Zero >>,
             << Zero, Zero, <<40 - 38, 10>>, <<42 - 40, 10>> >>,
             << Zero, Zero, Zero, <<46 - 42, 10>> >> >>)],
     test2_undershoot_left |->
        [edges          |-> <<10, 20, 30, 40, 50>>,
         edges_backward |-> <<9, 34, 38, 42, 46>>,
         edges_modified |-> <<11, 14, 18, 35, 55>>,
         matrix |-> Mat(<<
             << <<20 - 10, 10>>, <<30 - 20, 10>>, <<34 - 30, 10>>, Zero >>,
             << Zero, Zero, <<38 - 34, 10>>, Zero >>,
             << Zero, Zero, <<40 - 38, 10>>, <<42 - 40, 10>> >>,
             << Zero, Zero, Zero, <<46 - 42, 10>> >> >>)],
     test2_undershoot_right |->
        [edges          |-> <<10, 20, 30, 40, 50>>,
         edges_backward |-> <<9, 34, 38, 42, 46>>,
         edges_modified |-> <<11, 14, 18, 35, 55>>,
         matrix |-> Mat(<<
             << <<20 - 10, 10>>, <<30 - 20, 10>>, <<34 - 30, 10>>, Zero >>,
             << Zero, Zero, <<38 - 34, 10>>, Zero >>,
             << Zero, Zero, <<40 - 38, 10>>, <<42 - 40, 10>> >>,
             << Zero, Zero, Zero, <<46 - 42, 10>> >> >>)],
     test3_minimal1 |->
        [edges          |-> <<10, 20>>,
         edges_backward |-> <<14, 34>>,
         edges_modified |-> <<9, 14>>,
         matrix |-> Mat(<< << <<20 - 14, 10>> >> >>)],
     test3_minimal2 |->
        [edges          |-> <<10, 20>>,
         edges_backward |-> <<9, 34>>,
         edges_modified |-> <<11, 14>>,
         matrix |-> Mat(<< << <<20 - 10, 10>> >> >>)],
     test3_minimal3 |->
        [edges          |-> <<10, 20>>,
         edges_backward |-> <<14, 16>>,
         edges_modified |-> <<9, 24>>,
         matrix |-> Mat(<< << <<16 - 14, 10>> >> >>)],
     test3_minimal4 |->
        [edges          |-> <<10, 20>>,
         edges_backward |-> <<9, 16>>,
         edges_modified |-> <<11, 24>>,
         matrix |-> Mat(<< << <<16 - 10, 10>> >> >>)],
     test3_minimal5 |->
        [edges          |-> <<10, 20>>,
         edges_backward |-> <<8, 9>>,
         edges_modified |-> <<21, 24>>,
         matrix |-> Mat(<< << Zero >> >>)],
     test3_minimal6 |->
        [edges          |-> <<10, 20>>,
         edges_backward |-> <<28, 29>>,
         edges_modified |-> <<8, 9>>,
         matrix |-> Mat(<< << Zero >> >>)],
     test4_variable |->
        [edges          |-> <<10, 20, 40, 70, 110>>,
         edges_backward |-> <<14, 44, 48, 72, 86>>,
         edges_modified |-> <<8, 14, 18, 65, 115>>,
         matrix |-> Mat(<<
             << <<20 - 14, 10>>, <<40 - 20, 20>>, <<44 - 40, 30>>, Zero >>,
             << Zero, Zero, <<48 - 44, 30>>, Zero >>,
             << Zero, Zero, <<70 - 48, 30>>, <<72 - 70, 40>> >>,
             << Zero, Zero, Zero, <<86 - 72, 40>> >> >>)]]

\* the edge triples the node is evaluated on: the fixtures, and every triple
\* of strictly increasing arrays of equal size over 0..top
DistInputsTo(top) ==
    {[edges          |-> test_sets[k].edges,
      edges_backward |-> test_sets[k].edges_backward,
      edges_modified |-> test_sets[k].edges_modified] : k \in DOMAIN test_sets}
    \cup
    UNION {[edges : EdgeArraysTo(n, top), edges_backward : EdgeArraysTo(n, top),
            edges_modified : EdgeArraysTo(n, top)] : n \in 1..MaxBins}

DistInputs == DistInputsTo(MaxEdge)

NBins == Size(edges_original) - 1

\* the node on inputs over 0..top, its output buffer filled with one of held
InitDistortionOn(top, held) ==
    /\ \E t \in DistInputsTo(top) :
          /\ edges_original = t.edges
          /\ edges_modified = t.edges_modified
          /\ edges_backwards = t.edges_backward
    /\ \E v \in held :
          ad = DistCall(Filled(Size(edges_original) - 1, Size(edges_original) - 1, v))
    /\ edges_old = <<>>
    /\ edges_new = <<>>
    /\ atol = 0
    /\ rtol = <<0, 1>>
    /\ py = [pc |-> "idle"]
    /\ nb = [pc |-> "idle"]
    /\ builds = 0
    /\ allok = TRUE
    /\ meta = MetaIdle

InitDistortionTo(top) == InitDistortionOn(top, {Zero})

InitDistortion == InitDistortionTo(MaxEdge)

DistEnter ==
    /\ ad.pc = "enter"
    /\ ad' = axisdistortion_python_enter(ad)
    /\ UNCHANGED <<edges_original, edges_modified, edges_backwards>>
    /\ UNCHANGED rebinVars
    /\ UNCHANGED metaVars

DistSeek ==
    /\ ad.pc = "seek"
    /\ ad' = axisdistortion_python_seek(ad, edges_original, edges_modified, edges_backwards)
    /\ UNCHANGED <<edges_original, edges_modified, edges_backwards>>
    /\ UNCHANGED rebinVars
    /\ UNCHANGED metaVars

DistScan ==
    /\ ad.pc = "scan"
    /\ ad' = axisdistortion_python_scan(ad, edges_original, edges_modified, edges_backwards)
    /\ UNCHANGED <<edges_original, edges_modified, edges_backwards>>
    /\ UNCHANGED rebinVars
    /\ UNCHANGED metaVars

NextDistortion ==
    \/ DistEnter
    \/ DistSeek
    \/ DistScan

SpecDistortion == InitDistortion /\ [][NextDistortion]_vars

---------------------------------------------------------------------------
(* The distortion node evaluated again into the buffer of its output *)

\* what the cells of the output buffer hold before the first evaluation
Held == {Zero, <<1, 1>>, <<-7, 2>>}

InitDistortionAgain == InitDistortionOn(MaxEdgeAgain, Held)

\* the node is touched again with the same edges: the function runs on the
\* buffer the last call left
DistReevaluate ==
    /\ ad.pc = "done"
    /\ builds < MaxBuilds
    /\ ad' = DistCall(ad.matrix)
    /\ builds' = builds + 1
    /\ allok' = (allok /\ ad.raised = "none")
    /\ UNCHANGED <<edges_original, edges_modified, edges_backwards>>
    /\ UNCHANGED <<edges_old, edges_new, atol, rtol, py, nb>>
    /\ UNCHANGED metaVars

NextDistortionAgain ==
    \/ DistEnter
    \/ DistSeek
    \/ DistScan
    \/ DistReevaluate

SpecDistortionAgain == InitDistortionAgain /\ [][NextDistortionAgain]_vars

---------------------------------------------------------------------------
(* A build call of either kind, run to its end: once entered, a call keeps *)
(* executing until it returns or raises.                                   *)

\* the inputs are those of the re-evaluated nodes, edges in 0..MaxEdgeAgain
InitBuild == InitRebinAgain \/ InitDistortionTo(MaxEdgeAgain)

NextBuild ==
    \/ PyAssert
    \/ PyFor
    \/ PyWhile
    \/ NbAssert
    \/ NbFor
    \/ NbWhile
    \/ DistEnter
    \/ DistSeek
    \/ DistScan

SpecBuild == InitBuild /\ [][NextBuild]_vars /\ WF_vars(NextBuild)

---------------------------------------------------------------------------
(* The meta-nodes Rebin and EnergyResolution: lists of constituent nodes   *)
(* and the connections between them.  A node is named by its position in   *)
(* its list; a connection is kept at the input it feeds, as the position   *)
(* of the node whose output it is, 0 for an input that is not connected.   *)

\* output >> input of dagflow: the input takes the output; what happens to
\* an input that is connected already is not decided by this repository, so
\* the call then either reconnects or raises
connect(links, child, parent) ==
    IF links[child] = 0
    THEN {<<[links EXCEPT ![child] = parent], "none">>}
    ELSE {<<[links EXCEPT ![child] = parent], "none">>, <<links, "ReconnectionError">>}

\* the instance at the start of a method: nothing raised, the connections
\* remembered as they are (before and last are history)
Enter(m, method) ==
    IF m.kind = "Rebin"
    THEN [m EXCEPT !.raised = "none", !.last = method, !.before = <<m.matrix>>]
    ELSE [m EXCEPT !.raised = "none", !.last = method, !.before = <<m.Energy, m.RelSigma>>]

\* Rebin.__init__, lines 28..30: the empty lists
Rebin_new(bare) ==
    [kind                    |-> "Rebin",
     bare                    |-> bare,
     RebinMatrixList         |-> <<>>,
     VectorMatrixProductList |-> <<>>,
     matrix                  |-> <<>>,
     raised                  |-> "none",
     last                    |-> "new",
     before                  |-> << <<>> >>]

add_RebinMatrix(m) ==
    [m EXCEPT !.RebinMatrixList = Append(@, Len(@) + 1)]

\* the new VectorMatrixProduct has an input "matrix", not connected
add_VectorMatrixProduct(m) ==
    [m EXCEPT !.VectorMatrixProductList = Append(@, Len(@) + 1),
              !.matrix = Append(@, 0)]

\* _RebinMatrix.outputs["matrix"] >> _VectorMatrixProduct.inputs["matrix"]
Rebin_connect(m, vmp, rm) ==
    {[m EXCEPT !.matrix = c[1], !.raised = c[2]] : c \in connect(m.matrix, vmp, rm)}

\* the loop over zip(VectorMatrixProductList, RebinMatrixList) from pair i on
RECURSIVE Rebin_zip(_, _)
Rebin_zip(m, i) ==
    IF i > Min(Len(m.VectorMatrixProductList), Len(m.RebinMatrixList))
    THEN {m}
    ELSE UNION {IF c.raised # "none" THEN {c} ELSE Rebin_zip(c, i + 1) :
                   c \in Rebin_connect(m, i, i)}

Rebin_bind_outputs(m) ==
    IF Len(m.VectorMatrixProductList) # Len(m.RebinMatrixList)
    THEN {[m EXCEPT !.raised = "ConnectionError"]}
    ELSE Rebin_zip(m, 1)

Rebin_init(bare) ==
    IF bare
    THEN {Rebin_new(TRUE)}
    ELSE Rebin_bind_outputs(add_VectorMatrixProduct(add_RebinMatrix(Rebin_new(FALSE))))

\* the loop of replicate over the keys of replicate_outputs, k keys left:
\* a VectorMatrixProduct is added and fed by the one RebinMatrix
RECURSIVE Rebin_replicate_keys(_, _)
Rebin_replicate_keys(m, k) ==
    IF k = 0
    THEN {m}
    ELSE LET a == add_VectorMatrixProduct(m)
         IN  UNION {IF c.raised # "none" THEN {c} ELSE Rebin_replicate_keys(c, k - 1) :
                       c \in Rebin_connect(a, Len(a.VectorMatrixProductList), 1)}

Rebin_replicate(k) == Rebin_replicate_keys(add_RebinMatrix(Rebin_new(TRUE)), k)

\* EnergyResolution.__init__, lines 30..33: the empty lists
EnergyResolution_new(bare) ==
    [kind                            |-> "EnergyResolution",
     bare                            |-> bare,
     EnergyResolutionMatrixBCList    |-> <<>>,
     EnergyResolutionSigmaRelABCList |-> <<>>,
     BinCenterList                   |-> <<>>,
     Energy                          |-> <<>>,
     RelSigma                        |-> <<>>,
     raised                          |-> "none",
     last                            |-> "new",
     before                          |-> << <<>>, <<>> >>]

\* the new EnergyResolutionSigmaRelABC has an input "Energy", not connected
add_EnergyResolutionSigmaRelABC(m) ==
    [m EXCEPT !.EnergyResolutionSigmaRelABCList = Append(@, Len(@) + 1),
              !.Energy = Append(@, 0)]

add_BinCenter(m) ==
    [m EXCEPT !.BinCenterList = Append(@, Len(@) + 1)]

\* the new EnergyResolutionMatrixBC has an input "RelSigma", not connected
add_EnergyResolutionMatrixBC(m) ==
    [m EXCEPT !.EnergyResolutionMatrixBCList = Append(@, Len(@) + 1),
              !.RelSigma = Append(@, 0)]

\* _BinCenter.outputs["Energy"] >> _EnergyResolutionSigmaRelABC.inputs["Energy"]
Energy_connect(m, sigma, bc) ==
    {[m EXCEPT !.Energy = c[1], !.raised = c[2]] : c \in connect(m.Energy, sigma, bc)}

\* _EnergyResolutionSigmaRelABC._RelSigma >> _EnergyResolutionMatrixBC.inputs["RelSigma"]
RelSigma_connect(m, eres, sigma) ==
    {[m EXCEPT !.RelSigma = c[1], !.raised = c[2]] : c \in connect(m.RelSigma, eres, sigma)}

\* the loop over zip(BinCenterList, SigmaRelABCList, MatrixBCList) from
\* triplet i on
RECURSIVE EnergyResolution_zip(_, _)
EnergyResolution_zip(m, i) ==
    IF i > Min(Len(m.BinCenterList),
               Min(Len(m.EnergyResolutionSigmaRelABCList), Len(m.EnergyResolutionMatrixBCList)))
    THEN {m}
    ELSE UNION {IF c.raised # "none"
                THEN {c}
                ELSE UNION {IF d.raised # "none" THEN {d} ELSE EnergyResolution_zip(d, i + 1) :
                               d \in RelSigma_connect(c, i, i)} :
                   c \in Energy_connect(m, i, i)}

\* (l1 := ...) == (l2 := ...) == (l3 := ...) is a chained comparison: when
\* l1 # l2 the third operand is not evaluated, l3 is not bound and the
\* f-string of the message raises UnboundLocalError
EnergyResolution_bind_outputs(m) ==
    LET l1 == Len(m.BinCenterList)
        l2 == Len(m.EnergyResolutionMatrixBCList)
        l3 == Len(m.EnergyResolutionSigmaRelABCList)
    IN  IF l1 # l2
        THEN {[m EXCEPT !.raised = "UnboundLocalError"]}
        ELSE IF l2 # l3
        THEN {[m EXCEPT !.raised = "ConnectionError"]}
        ELSE EnergyResolution_zip(m, 1)

EnergyResolution_init(bare) ==
    IF bare
    THEN {EnergyResolution_new(TRUE)}
    ELSE EnergyResolution_bind_outputs(
             add_EnergyResolutionMatrixBC(add_BinCenter(
                 add_EnergyResolutionSigmaRelABC(EnergyResolution_new(FALSE)))))

\* the loop of replicate over the keys, k keys left: an
\* EnergyResolutionMatrixBC is added and fed by the one SigmaRelABC
RECURSIVE EnergyResolution_replicate_keys(_, _)
EnergyResolution_replicate_keys(m, k) ==
    IF k = 0
    THEN {m}
    ELSE LET a == add_EnergyResolutionMatrixBC(m)
         IN  UNION {IF c.raised # "none"
                    THEN {c}
                    ELSE EnergyResolution_replicate_keys(c, k - 1) :
                       c \in RelSigma_connect(a, Len(a.EnergyResolutionMatrixBCList), 1)}

EnergyResolution_replicate(k) ==
    LET a == add_BinCenter(add_EnergyResolutionSigmaRelABC(EnergyResolution_new(TRUE)))
    IN  UNION {IF c.raised # "none" THEN {c} ELSE EnergyResolution_replicate_keys(c, k) :
                  c \in Energy_connect(a, 1, 1)}

---------------------------------------------------------------------------
(* A meta-node made by its constructor or by replicate, then extended and  *)
(* bound by the calls of its methods                                       *)

InitMeta ==
    /\ meta = MetaIdle
    /\ edges_old = <<>>
    /\ edges_new = <<>>
    /\ atol = 0
    /\ rtol = <<0, 1>>
    /\ py = [pc |-> "idle"]
    /\ nb = [pc |-> "idle"]
    /\ builds = 0
    /\ allok = TRUE
    /\ edges_original = <<>>
    /\ edges_modified = <<>>
    /\ edges_backwards = <<>>
    /\ ad = DistIdle

RebinInit ==
    /\ meta.kind = "none"
    /\ \E bare \in BOOLEAN : \E m \in Rebin_init(bare) :
          meta' = [m EXCEPT !.last = "__init__"]
    /\ UNCHANGED <<rebinVars, distVars>>

RebinReplicate ==
    /\ meta.kind = "none"
    /\ \E k \in 1..MaxNodes : \E m \in Rebin_replicate(k) :
          meta' = [m EXCEPT !.last = "replicate"]
    /\ UNCHANGED <<rebinVars, distVars>>

RebinAddRebinMatrix ==
    /\ meta.kind = "Rebin"
    /\ Len(meta.RebinMatrixList) < MaxNodes
    /\ meta' = add_RebinMatrix(Enter(meta, "add_RebinMatrix"))
    /\ UNCHANGED <<rebinVars, distVars>>

RebinAddVectorMatrixProduct ==
    /\ meta.kind = "Rebin"
    /\ Len(meta.VectorMatrixProductList) < MaxNodes
    /\ meta' = add_VectorMatrixProduct(Enter(meta, "add_VectorMatrixProduct"))
    /\ UNCHANGED <<rebinVars, distVars>>

RebinBindOutputs ==
    /\ meta.kind = "Rebin"
    /\ meta' \in Rebin_bind_outputs(Enter(meta, "_bind_outputs"))
    /\ UNCHANGED <<rebinVars, distVars>>

EnergyResolutionInit ==
    /\ meta.kind = "none"
    /\ \E bare \in BOOLEAN : \E m \in EnergyResolution_init(bare) :
          meta' = [m EXCEPT !.last = "__init__"]
    /\ UNCHANGED <<rebinVars, distVars>>

EnergyResolutionReplicate ==
    /\ meta.kind = "none"
    /\ \E k \in 1..MaxNodes : \E m \in EnergyResolution_replicate(k) :
          meta' = [m EXCEPT !.last = "replicate"]
    /\ UNCHANGED <<rebinVars, distVars>>

EnergyResolutionAddSigmaRelABC ==
    /\ meta.kind = "EnergyResolution"
    /\ Len(meta.EnergyResolutionSigmaRelABCList) < MaxNodes
    /\ meta' = add_EnergyResolutionSigmaRelABC(Enter(meta, "add_EnergyResolutionSigmaRelABC"))
    /\ UNCHANGED <<rebinVars, distVars>>

EnergyResolutionAddBinCenter ==
    /\ meta.kind = "EnergyResolution"
    /\ Len(meta.BinCenterList) < MaxNodes
    /\ meta' = add_BinCenter(Enter(meta, "add_BinCenter"))
    /\ UNCHANGED <<rebinVars, distVars>>

EnergyResolutionAddMatrixBC ==
    /\ meta.kind = "EnergyResolution"
    /\ Len(meta.EnergyResolutionMatrixBCList) < MaxNodes
    /\ meta' = add_EnergyResolutionMatrixBC(Enter(meta, "add_EnergyResolutionMatrixBC"))
    /\ UNCHANGED <<rebinVars, distVars>>

EnergyResolutionBindOutputs ==
    /\ meta.kind = "EnergyResolution"
    /\ meta' \in EnergyResolution_bind_outputs(Enter(meta, "_bind_outputs"))
    /\ UNCHANGED <<rebinVars, distVars>>

NextMeta ==
    \/ RebinInit
    \/ RebinReplicate
    \/ RebinAddRebinMatrix
    \/ RebinAddVectorMatrixProduct
    \/ RebinBindOutputs
    \/ EnergyResolutionInit
    \/ EnergyResolutionReplicate
    \/ EnergyResolutionAddSigmaRelABC
    \/ EnergyResolutionAddBinCenter
    \/ EnergyResolutionAddMatrixBC
    \/ EnergyResolutionBindOutputs

SpecMeta == InitMeta /\ [][NextMeta]_vars

---------------------------------------------------------------------------
(* Vocabulary of the properties of the distortion matrix *)

\* numerator and denominator of a cell with the sign on the numerator
Num(q) == IF q[2] < 0 THEN -q[1] ELSE q[1]

Den(q) == Abs(q[2])

RatEq(p, q) == Num(p) * Den(q) = Num(q) * Den(p)

RatLe(p, q) == Num(p) * Den(q) <= Num(q) * Den(p)

RatLt(p, q) == Num(p) * Den(q) < Num(q) * Den(p)

RatAdd(p, q) == <<Num(p) * Den(q) + Num(q) * Den(p), Den(p) * Den(q)>>

One == <<1, 1>>

\* sum of column c of mat over the rows 0..r
RECURSIVE ColumnSumTo(_, _, _)
ColumnSumTo(mat, c, r) ==
    IF r < 0 THEN Zero ELSE RatAdd(ColumnSumTo(mat, c, r - 1), mat[r][c])

ColumnSum(mat, c) == ColumnSumTo(mat, c, Cardinality(Rows(mat)) - 1)

SameMatrix(m1, m2) ==
    /\ Rows(m1) = Rows(m2)
    /\ Cols(m1) = Cols(m2)
    /\ \A i \in Rows(m1) : \A j \in Cols(m1) : RatEq(m1[i][j], m2[i][j])

\* modified[i] >= original[k] exactly when original[i] >= backward[k]
Consistent ==
    \A i \in 0..NBins : \A k \in 0..NBins :
        (At(edges_modified, i) >= At(edges_original, k))
            <=> (At(edges_original, i) >= At(edges_backwards, k))

\* length of [original[c], original[c+1]] /\ [backward[r], backward[r+1]]
Overlap(c, r) ==
    Max(0, Min(At(edges_original, c + 1), At(edges_backwards, r + 1))
           - Max(At(edges_original, c), At(edges_backwards, r)))

\* source bin c lies in the backward domain
Covered(c) ==
    /\ At(edges_backwards, 0) <= At(edges_original, c)
    /\ At(edges_original, c + 1) <= At(edges_backwards, NBins)

IsFixture(k) ==
    /\ edges_original = test_sets[k].edges
    /\ edges_modified = test_sets[k].edges_modified
    /\ edges_backwards = test_sets[k].edges_backward

\* entries in [0, 1], column sums <= 1, = 1 exactly on the covered bins, and
\* the columns below 1 only at the two ends
ColumnSumsAsClaimed ==
    /\ \A i \in Rows(ad.matrix) : \A j \in Cols(ad.matrix) :
          RatLe(Zero, ad.matrix[i][j]) /\ RatLe(ad.matrix[i][j], One)
    /\ \A c \in Cols(ad.matrix) :
          /\ RatLe(ColumnSum(ad.matrix, c), One)
          /\ Covered(c) => RatEq(ColumnSum(ad.matrix, c), One)
          /\ ~Covered(c) => RatLt(ColumnSum(ad.matrix, c), One)
    /\ \A a \in Cols(ad.matrix) : \A b \in Cols(ad.matrix) : \A c \in Cols(ad.matrix) :
          (a < b /\ b < c /\ RatEq(ColumnSum(ad.matrix, a), One)
                 /\ RatEq(ColumnSum(ad.matrix, c), One))
              => RatEq(ColumnSum(ad.matrix, b), One)

AllZero == \A i \in Rows(ad.matrix) : \A j \in Cols(ad.matrix) : ad.matrix[i][j] = Zero

BackwardBelow == At(edges_backwards, NBins) < At(edges_original, 0)

BackwardAbove == At(edges_backwards, 0) > At(edges_original, NBins)

---------------------------------------------------------------------------
(* Vocabulary of the properties of the rebin matrix *)

PyReturned == py.pc = "done" /\ py.raised = "none"

\* the call was handed a zero-filled buffer
ZeroFilled(r) == \A i \in Rows(r.buffer0) : \A j \in Cols(r.buffer0) : r.buffer0[i][j] = 0

\* the tolerance at b, times the denominator of rtol
Tol(b) == atol * rtol[2] + rtol[1] * Abs(b)

\* a and b differ by more than k times the tolerance at either of them
FurtherApart(a, b, k) == Abs(a - b) * rtol[2] > k * Max(Tol(a), Tol(b))

\* adjacent old edges are further apart than k times the tolerance
OldSeparated(k) ==
    \A j \in 0..(NBinsOld - 1) : FurtherApart(At(edges_old, j), At(edges_old, j + 1), k)

\* the new edge e and the old edge o coincide: |e - o| <= atol + rtol * |o|
Coincident(e, o) == Abs(e - o) * rtol[2] <= Tol(o)

\* old bin j lies inside [new[0], new[M]], within tolerance: the tolerance of
\* the lower edge is taken at new[0], that of the upper edge at the old edge,
\* as numpy.isclose takes them in the comparisons of the builder
InsideNew(j) ==
    /\ \/ At(edges_old, j) >= At(edges_new, 0)
       \/ Abs(At(edges_old, j) - At(edges_new, 0)) * rtol[2] <= Tol(At(edges_new, 0))
    /\ \/ At(edges_old, j + 1) <= At(edges_new, NBinsNew)
       \/ Coincident(At(edges_new, NBinsNew), At(edges_old, j + 1))

\* new spans the whole old range: the first and the last old edge lie in
\* [new[0], new[M]] within tolerance, the tolerance taken as for InsideNew
SpansOld ==
    /\ \/ At(edges_old, 0) >= At(edges_new, 0)
       \/ Abs(At(edges_old, 0) - At(edges_new, 0)) * rtol[2] <= Tol(At(edges_new, 0))
    /\ \/ At(edges_old, NBinsOld) <= At(edges_new, NBinsNew)
       \/ Coincident(At(edges_new, NBinsNew), At(edges_old, NBinsOld))

\* the two range preconditions
RangePreconditions ==
    /\ At(edges_new, 0) >= At(edges_old, 0) \/ Coincident(At(edges_new, 0), At(edges_old, 0))
    /\ \/ At(edges_new, NBinsNew) <= At(edges_old, NBinsOld)
       \/ Coincident(At(edges_new, NBinsNew), At(edges_old, NBinsOld))

\* sum of column j of mat over the rows 0..i
RECURSIVE RebinColumnSumTo(_, _, _)
RebinColumnSumTo(mat, j, i) ==
    IF i < 0 THEN 0 ELSE RebinColumnSumTo(mat, j, i - 1) + mat[i][j]

RebinColumnSum(mat, j) == RebinColumnSumTo(mat, j, Cardinality(Rows(mat)) - 1)

\* sum of the column sums of the columns 0..j
RECURSIVE RebinTotalTo(_, _)
RebinTotalTo(mat, j) ==
    IF j < 0 THEN 0 ELSE RebinTotalTo(mat, j - 1) + RebinColumnSum(mat, j)

\* (mat @ y)[i], summed over the columns 0..j
RECURSIVE DotTo(_, _, _, _)
DotTo(mat, y, i, j) ==
    IF j < 0 THEN 0 ELSE DotTo(mat, y, i, j - 1) + mat[i][j] * y[j]

\* y[lo] + ... + y[hi]
RECURSIVE SliceSum(_, _, _)
SliceSum(y, lo, hi) == IF hi < lo THEN 0 ELSE SliceSum(y, lo, hi - 1) + y[hi]

\* new = old[::m] with m dividing the number of old bins
IsGrouping(m) ==
    /\ NBinsOld % m = 0
    /\ NBinsNew = NBinsOld \div m
    /\ \A i \in 0..NBinsNew : At(edges_new, i) = At(edges_old, m * i)

\* entries 0 or 1, at most one 1 per column, column sum 1 on the old bins
\* inside [new[0], new[M]] and 0 on the others, total N when new spans old
PartitionAsClaimed ==
    /\ \A i \in Rows(py.rebin_matrix) : \A j \in Cols(py.rebin_matrix) :
          py.rebin_matrix[i][j] \in {0, 1}
    /\ \A j \in Cols(py.rebin_matrix) :
          /\ Cardinality({i \in Rows(py.rebin_matrix) : py.rebin_matrix[i][j] = 1}) <= 1
          /\ InsideNew(j) => RebinColumnSum(py.rebin_matrix, j) = 1
          /\ ~InsideNew(j) => RebinColumnSum(py.rebin_matrix, j) = 0
    /\ SpansOld => RebinTotalTo(py.rebin_matrix, NBinsOld - 1) = NBinsOld

\* matrix[i, j] = 1 exactly when i = j div m, with the product and the
\* column sums that follow
GroupingAsClaimed(m) ==
    /\ \A i \in Rows(py.rebin_matrix) : \A j \in Cols(py.rebin_matrix) :
          py.rebin_matrix[i][j] = (IF i = j \div m THEN 1 ELSE 0)
    /\ \A y \in [0..(NBinsOld - 1) -> 0..1] : \A i \in Rows(py.rebin_matrix) :
          DotTo(py.rebin_matrix, y, i, NBinsOld - 1) = SliceSum(y, m * i, m * i + m - 1)
    /\ \A j \in Cols(py.rebin_matrix) : RebinColumnSum(py.rebin_matrix, j) = 1

---------------------------------------------------------------------------
(* C1.  Distortion build: when modified is consistent with backward, the    *)
(* call returns normally and cell (r, c) is the length of the intersection *)
(* of source bin c with backward bin r divided by the width of source bin  *)
(* c; on the fixtures of the test suite the matrix is the enumerated one.  *)
C1_OverlapFractions ==
    (ad.pc = "done" /\ Consistent) =>
        /\ ad.raised = "none"
        /\ \A r \in Rows(ad.matrix) : \A c \in Cols(ad.matrix) :
              RatEq(ad.matrix[r][c],
                    <<Overlap(c, r), At(edges_original, c + 1) - At(edges_original, c)>>)
        /\ \A k \in DOMAIN test_sets :
              IsFixture(k) => SameMatrix(ad.matrix, test_sets[k].matrix)

\* the fixture test1 has been built: row 0 is 0.6, 1, 0.4, 0
C1_Witness ==
    /\ ad.pc = "done"
    /\ Consistent
    /\ IsFixture("test1")
    /\ RatEq(ad.matrix[0][0], <<6, 10>>)
    /\ RatEq(ad.matrix[0][1], One)
    /\ RatEq(ad.matrix[0][2], <<4, 10>>)
    /\ RatEq(ad.matrix[0][3], Zero)
    /\ RatEq(ad.matrix[2][3], <<2, 10>>)

(* C2.  Rebin build: after a build that returns normally into a          *)
(* zero-filled buffer, with adjacent old edges more than twice the         *)
(* tolerance apart, every entry is 0 or 1, a column holds at most one 1,   *)
(* the old bins inside [new[0], new[M]] have column sum 1 and the others   *)
(* 0, and the total is N when new spans the old range.                     *)
C2_Partition ==
    (PyReturned /\ ZeroFilled(py) /\ OldSeparated(2)) => PartitionAsClaimed

\* a normal return in which the last new edge meets an old edge only within
\* tolerance, with old bins inside the new range and outside it
C2_Witness ==
    /\ PyReturned
    /\ ZeroFilled(py)
    /\ OldSeparated(2)
    /\ NBinsOld >= 2
    /\ \A k \in 0..NBinsOld : At(edges_new, NBinsNew) # At(edges_old, k)
    /\ \E j \in Cols(py.rebin_matrix) : InsideNew(j)
    /\ \E j \in Cols(py.rebin_matrix) : ~InsideNew(j)

\* C2 as claimed: after any build that returns normally
C2_PartitionAnyTolerance ==
    (PyReturned /\ ZeroFilled(py)) => PartitionAsClaimed

(* C3.  Rebin build returns normally only if every edge of new, the first  *)
(* included, coincides within tolerance with some edge of old.             *)
C3_EveryNewEdgeOnOld ==
    PyReturned =>
        \A i \in 0..NBinsNew : \E j \in 0..NBinsOld :
            Coincident(At(edges_new, i), At(edges_old, j))

(* C4.  Rebin grouping: for old with adjacent edges further apart than the *)
(* tolerance, m dividing N and new = old[::m], a build into a zeroed       *)
(* buffer returns normally with matrix[i, j] = 1 exactly when i = j div m, *)
(* so (matrix @ y)[i] = y[m*i] + ... + y[m*i+m-1] and every column sums to *)
(* 1.                                                                      *)
C4_Grouping ==
    \A m \in 1..NBinsOld :
        (py.pc = "done" /\ ZeroFilled(py) /\ OldSeparated(1) /\ IsGrouping(m)) =>
            (py.raised = "none" /\ GroupingAsClaimed(m))

\* four old bins grouped by two
C4_Witness ==
    /\ PyReturned
    /\ ZeroFilled(py)
    /\ OldSeparated(1)
    /\ NBinsOld = 4
    /\ IsGrouping(2)
    /\ py.rebin_matrix[1][2] = 1
    /\ py.rebin_matrix[1][3] = 1

\* C4 as claimed: for any strictly increasing old
C4_GroupingAnyTolerance ==
    \A m \in 1..NBinsOld :
        (py.pc = "done" /\ ZeroFilled(py) /\ IsGrouping(m)) =>
            (py.raised = "none" /\ GroupingAsClaimed(m))

(* C5.  Distortion build, modified consistent with backward: every entry   *)
(* lies in [0, 1], every column sum is <= 1, it is 1 exactly on the        *)
(* covered source bins, and the columns below 1 form a prefix and a        *)
(* suffix.                                                                 *)
C5_ColumnSumsConsistent ==
    (ad.pc = "done" /\ Consistent) => (ad.raised = "none" /\ ColumnSumsAsClaimed)

\* a consistent build with a truncated first column, a full one and an
\* empty last one
C5_Witness ==
    /\ ad.pc = "done"
    /\ Consistent
    /\ NBins >= 3
    /\ RatLt(Zero, ColumnSum(ad.matrix, 0))
    /\ RatLt(ColumnSum(ad.matrix, 0), One)
    /\ RatEq(ColumnSum(ad.matrix, 1), One)
    /\ RatLt(ColumnSum(ad.matrix, NBins - 1), One)

\* C5 as claimed, for any strictly increasing inputs (on a normal return)
C5_ColumnSumsAnyInputs ==
    (ad.pc = "done" /\ ad.raised = "none") => ColumnSumsAsClaimed

(* C6.  Distortion undershoot: a call that ends in the first loop returns  *)
(* normally with every cell 0; this is what happens when every backward    *)
(* edge is below original[0], and when every backward edge is above        *)
(* original[N] and modified[0] is below original[0].                       *)
C6_Undershoot ==
    /\ (ad.pc = "done" /\ ad.undershoot) => (ad.raised = "none" /\ AllZero)
    /\ (ad.pc = "done" /\ BackwardBelow) => ad.undershoot
    /\ (ad.pc = "done" /\ BackwardAbove
          /\ At(edges_modified, 0) < At(edges_original, 0)) => ad.undershoot

\* the fixture test3_minimal6 has returned from the first loop
C6_Witness ==
    /\ ad.pc = "done"
    /\ ad.undershoot
    /\ BackwardAbove
    /\ IsFixture("test3_minimal6")
    /\ AllZero

\* C6 as claimed: any backward domain outside the original one undershoots
C6_UndershootAnyModified ==
    (ad.pc = "done" /\ (BackwardBelow \/ BackwardAbove)) =>
        (ad.undershoot /\ ad.raised = "none" /\ AllZero)

(* C7.  Rebin identity: for old with adjacent edges further apart than    *)
(* the tolerance and new equal to old, a build into a zeroed buffer        *)
(* returns normally and the matrix is the identity.                        *)
C7_Identity ==
    (py.pc = "done" /\ ZeroFilled(py) /\ OldSeparated(1) /\ edges_new = edges_old) =>
        /\ py.raised = "none"
        /\ \A i \in Rows(py.rebin_matrix) : \A j \in Cols(py.rebin_matrix) :
              py.rebin_matrix[i][j] = (IF i = j THEN 1 ELSE 0)

\* an identity build of at least two bins under a nonzero tolerance
C7_Witness ==
    /\ PyReturned
    /\ ZeroFilled(py)
    /\ OldSeparated(1)
    /\ edges_new = edges_old
    /\ NBinsOld >= 2
    /\ atol = 1
    /\ py.rebin_matrix[1][1] = 1

(* C8.  Rebin preconditions: both paths test the two range preconditions   *)
(* before the scan; when one fails the call raises with no cursor moved    *)
(* and the buffer as the caller supplied it, and a call that got past the  *)
(* asserts satisfies both.                                                 *)
C8_Preconditions ==
    \A r \in {py, nb} :
        /\ (r.pc \notin {"idle", "assert"} /\ ~RangePreconditions) =>
              /\ r.pc = "done"
              /\ r.raised = "AssertionError"
              /\ r.at \in {"first", "last"}
              /\ r.rebin_matrix = r.buffer0
              /\ r.written = {}
              /\ r.inew = 0 /\ r.iold = 0 /\ r.stepper_old = 0 /\ r.steps = 0
        /\ (r.pc \notin {"idle", "assert"} /\ RangePreconditions) =>
              r.at \notin {"first", "last"}

\* the second precondition fails on a buffer that holds an earlier matrix
C8_Witness ==
    /\ py.pc = "done"
    /\ py.raised = "AssertionError"
    /\ py.at = "last"
    /\ nb.pc = "done"
    /\ nb.at = "last"
    /\ ~ZeroFilled(py)
    /\ py.rebin_matrix = py.buffer0

C10_CompletePopulation ==
    (PyReturned /\ allok) =>
        \A i \in Rows(py.rebin_matrix) : \A j \in Cols(py.rebin_matrix) :
            <<i, j>> \notin py.written => py.rebin_matrix[i][j] = 0

---------------------------------------------------------------------------
(* Vocabulary of the termination properties *)

\* the calls of the two rebin paths that have been entered
RebinCalls == {r \in {py, nb} : r.pc # "idle"}

\* the number of times the while loop of call r has been left
LoopExits(r) == IF r.pc = "while" THEN r.inew - 1 ELSE r.inew

\* the number of executions of the body of the while loop of call r
Bodies(r) == r.steps - LoopExits(r)

\* the distortion call is between its entry and its end
Scanning == ad.pc \in {"seek", "scan"}

\* the step is an iteration of one of the two loops of the distortion call
DistIteration == Scanning /\ ad'.steps = ad.steps + 1

\* bounds on the iterations of the two builders
C11_Bounded ==
    /\ ad.pc # "idle" =>
          /\ ad.steps <= 2 * NBins + 1
          /\ ad.pc \in {"seek", "scan"} => (ad.idxx0 < NBins /\ ad.idxx1 < NBins)
    /\ \A r \in RebinCalls :
          /\ r.raised \in {"none", "AssertionError", "RuntimeError"}
          /\ Bodies(r) = r.iold
          /\ r.iold <= NBinsOld
          /\ r.inew <= NBinsNew

\* what one step does to the cursors
C11_Step ==
    /\ (DistIteration /\ ad'.raised = "none") =>
          \/ ad'.idxx0 = ad.idxx0 + 1 /\ ad'.idxx1 = ad.idxx1
          \/ ad'.idxx1 = ad.idxx1 + 1 /\ ad'.idxx0 = ad.idxx0
    /\ Scanning =>
          /\ ad'.idxx0 >= ad.idxx0
          /\ ad'.idxx1 >= ad.idxx1
          /\ ad'.idxy >= ad.idxy
    /\ (Scanning /\ (ad'.idxx0 >= NBins \/ ad'.idxx1 >= NBins)) => ad'.pc = "done"
    /\ (py.pc \in {"for", "while"}) => py'.iold \in {py.iold, py.iold + 1}
    /\ (nb.pc \in {"for", "while"}) => nb'.iold \in {nb.iold, nb.iold + 1}

\* every call that was entered has returned or raised
C11_Ended ==
    /\ ad.pc \in {"idle", "done"}
    /\ py.pc \in {"idle", "done"}
    /\ nb.pc \in {"idle", "done"}

(* C11.  Termination: every build call on strictly increasing inputs ends. *)
(* In the distortion builder an iteration of either loop that does not     *)
(* raise advances exactly one of idxx0, idxx1 by one, no cursor decreases, *)
(* the call ends as soon as idxx0 or idxx1 reaches N, and at most 2N+1     *)
(* iterations occur; in the rebin builders iold only moves forward, by one *)
(* per execution of the body of the while loop, at most N times in all.    *)
C11_Termination == []C11_Bounded /\ [][C11_Step]_vars /\ <>C11_Ended

\* a distortion call of two bins or more that took all 2N+1 iterations
C11_Witness ==
    /\ ad.pc = "done"
    /\ ad.raised = "none"
    /\ NBins >= 2
    /\ ad.steps = 2 * NBins + 1
    /\ ad.written # {}

---------------------------------------------------------------------------
(* Vocabulary of the failures of the rebin scan *)

\* call r ended while it was looking for edge_new with the cursor on the last
\* old edge, that edge below edge_new and not coincident with it
Exhausted(r) ==
    /\ r.pc = "done"
    /\ r.at \notin {"first", "last"}
    /\ r.inew >= 1
    /\ r.iold = NBinsOld
    /\ r.edge_old < r.edge_new
    /\ ~Coincident(r.edge_new, r.edge_old)

(* C12.  Rebin outer failure: a scan whose old cursor is exhausted before  *)
(* an old edge >= new[inew] or coincident with it was found fails with the *)
(* outer inconsistent-edges error (RuntimeError in the reference path) and *)
(* has written no column index >= N.                                       *)
C12_OuterFailure ==
    \A r \in RebinCalls :
        Exhausted(r) =>
            /\ r.at = "outer"
            /\ r = py => r.raised = "RuntimeError"
            /\ r.rebin_matrix = [i \in Rows(r.rebin_matrix) |->
                  [j \in Cols(r.rebin_matrix) |->
                      IF <<i, j>> \in r.written THEN 1 ELSE r.buffer0[i][j]]]

\* the old edge under the cursor of call r is coincident with new[inew]
CursorOnNewEdge(r) ==
    /\ r.edge_new = At(edges_new, r.inew)
    /\ r.edge_old = At(edges_old, r.iold)
    /\ Coincident(At(edges_new, r.inew), At(edges_old, r.iold))

(* C13.  Rebin inner failure: the scan goes on after the inner loop of     *)
(* inew only with the old edge under the cursor coincident with new[inew]; *)
(* otherwise it fails with the inner inconsistent-edges error at that inew *)
(* with only rows 0..inew-1 populated; on normal return every new[inew],   *)
(* inew in 1..M, was met by a coincident old edge.                         *)
C13_InnerFailure ==
    \A r \in RebinCalls :
        /\ (r.inew >= 1 /\ (r.pc = "for" \/ (r.pc = "done" /\ r.raised = "none"))) =>
              CursorOnNewEdge(r)
        /\ r.at = "inner" =>
              /\ r.pc = "done"
              /\ r.raised = (IF r = py THEN "RuntimeError" ELSE "AssertionError")
              /\ r.inew \in 1..NBinsNew
              /\ r.edge_new = At(edges_new, r.inew)
              /\ r.edge_old = At(edges_old, r.iold)
              /\ ~Coincident(r.edge_new, r.edge_old)
              /\ \A w \in r.written : w[1] <= r.inew - 1
              /\ \A i \in Rows(r.rebin_matrix) : \A j \in Cols(r.rebin_matrix) :
                    i > r.inew - 1 => r.rebin_matrix[i][j] = r.buffer0[i][j]
        /\ (r.pc = "done" /\ r.raised = "none") =>
              /\ r.inew = NBinsNew
              /\ \A i \in 1..NBinsNew : \E j \in 0..NBinsOld :
                    Coincident(At(edges_new, i), At(edges_old, j))

\* the reference path fails the inner check at the second new edge, the
\* first row populated
C13_Witness ==
    /\ py.pc = "done"
    /\ py.at = "inner"
    /\ py.inew = 2
    /\ \E j \in Cols(py.rebin_matrix) : <<0, j>> \in py.written
    /\ \E j \in Cols(py.rebin_matrix) : <<1, j>> \in py.written
    /\ atol + rtol[1] > 0

---------------------------------------------------------------------------
(* Vocabulary of the steps of the distortion scan *)

\* the candidate breakpoints before the step
RightA == At(edges_original, ad.idxx0 + 1)

RightB == At(edges_backwards, ad.idxx1 + 1)

\* what an iteration does when the breakpoint is on axis A, on axis B
StepOnA ==
    /\ ad'.idxx0 = ad.idxx0 + 1
    /\ ad'.idxx1 = ad.idxx1
    /\ ad.pc = "scan" =>
          /\ ad'.right_axis = 0
          /\ ad'.rightx_fine = At(edges_original, ad.idxx0 + 1)
          /\ ad'.righty_fine = At(edges_modified, ad.idxx0 + 1)

StepOnB ==
    /\ ad'.idxx1 = ad.idxx1 + 1
    /\ ad'.idxx0 = ad.idxx0
    /\ ad.pc = "scan" =>
          /\ ad'.right_axis = 1
          /\ ad'.rightx_fine = At(edges_backwards, ad.idxx1 + 1)
          /\ ad'.righty_fine = At(edges_original, ad.idxx1 + 1)

C14_Step ==
    (DistIteration /\ ad'.raised = "none") =>
        /\ RightA < RightB => StepOnA
        /\ RightA >= RightB => StepOnB

(* C14.  Distortion tie-break: in every iteration of the two loops the     *)
(* breakpoint is taken from axis A only when original[idxx0+1] <           *)
(* backward[idxx1+1] strictly; on a tie it is taken from axis B: idxx1     *)
(* advances, idxx0 does not, and righty_fine is original[idxx1+1].  The    *)
(* comparison is exact.                                                    *)
C14_TieBreak == [][C14_Step]_vars

\* after a tie in the second loop: the breakpoint is the next original edge
\* as well, the cursor of axis B is the one that moved
C14_Witness ==
    /\ ad.pc = "scan"
    /\ ad.written # {}
    /\ ad.right_axis = 1
    /\ ad.idxx1 >= 1
    /\ ad.rightx_fine = At(edges_backwards, ad.idxx1)
    /\ ad.rightx_fine = At(edges_original, ad.idxx0 + 1)
    /\ ad.righty_fine = At(edges_original, ad.idxx1)
    /\ ad.righty_fine # At(edges_modified, ad.idxx0 + 1)

\* the column a write of the second loop goes to: idxx0, -1 being the last
WriteColumn == IF ad.idxx0 < 0 THEN NBins + ad.idxx0 ELSE ad.idxx0

\* the step is an iteration of the second loop that stored a cell
DistWrite == ad.pc = "scan" /\ ad'.steps = ad.steps + 1 /\ ad'.raised = "none"

\* the fraction of the fine segment of the step
Fraction == <<ad'.rightx_fine - ad.leftx_fine, ad.width_coarse>>

C15_Step ==
    DistWrite =>
        RatEq(ad'.matrix[ad'.idxy][WriteColumn],
              RatAdd(ad.matrix[ad'.idxy][WriteColumn], Fraction))

(* C15.  Distortion accumulation: every write of the second loop adds the  *)
(* fraction (rightx_fine - leftx_fine) / width_coarse to what the cell     *)
(* matrix[idxy, idxx0] held, so a cell reached by several fine segments    *)
(* holds the sum of their fractions.                                       *)
C15_Accumulation == [][C15_Step]_vars

(* C16.  Distortion row cursor bound: in the second loop, for any strictly *)
(* increasing inputs, the advance of idxy stops without failing before     *)
(* idxy passes the last destination bin: the destination edges are never   *)
(* read at an index above N and every write has its row idxy in 0..N-1.    *)
C16_RowCursorBound ==
    ad.pc # "idle" =>
        /\ ad.raised = "none"
        /\ ad.idxy \in 0..(NBins - 1)
        /\ \A w \in ad.written : w[1] \in 0..(NBins - 1)

C17_Step ==
    /\ DistWrite =>
          /\ ad.idxx0 \in 0..(NBins - 1)
          /\ <<ad'.idxy, ad.idxx0>> \in ad'.written
          /\ ad.width_coarse = At(edges_original, ad.idxx0 + 1) - At(edges_original, ad.idxx0)
          /\ ad.width_coarse > 0
    /\ (ad.pc = "scan" /\ ad'.width_coarse # ad.width_coarse) =>
          ad'.idxx0 = ad.idxx0 + 1

(* C17.  Distortion column cursor: at every write of the second loop, for  *)
(* any strictly increasing inputs (original[0] = backward[0] included),    *)
(* the column is the cursor idxx0 with 0 <= idxx0 <= N-1, width_coarse is  *)
(* original[idxx0+1] - original[idxx0] and is positive, and width_coarse   *)
(* changes only in a step that advances idxx0.                             *)
C17_ColumnCursor == [][C17_Step]_vars

---------------------------------------------------------------------------
(* Vocabulary of the steps of the rebin scan *)

\* the step executes the body of the while loop of the reference path, of
\* the compiled path
PyBody == py.pc = "while" /\ py'.steps = py.steps + 1 /\ py'.iold = py.iold + 1

NbBody == nb.pc = "while" /\ nb'.steps = nb.steps + 1 /\ nb'.iold = nb.iold + 1

\* the lower comparison of call r made against new[inew - 1]
LowerTracked(r) ==
    \/ r.edge_old >= At(edges_new, r.inew - 1)
    \/ Abs(r.edge_old - At(edges_new, r.inew - 1)) * rtol[2]
          <= Tol(At(edges_new, r.inew - 1))

\* the old edge under the cursor of r is below new[inew], not coincident
BelowNewEdge(r) ==
    /\ r.edge_old = At(edges_old, r.iold)
    /\ r.edge_old < At(edges_new, r.inew)
    /\ ~Coincident(At(edges_new, r.inew), r.edge_old)

C18_Step ==
    /\ PyBody =>
          /\ BelowNewEdge(py)
          /\ (<<py.inew - 1, py.iold>> \in py'.written) <=> LowerTracked(py)
    /\ NbBody =>
          /\ BelowNewEdge(nb)
          /\ (<<nb.inew - 1, nb.iold>> \in nb'.written) <=> LowerTracked(nb)

(* C18.  Rebin membership test: the scan sets matrix[inew-1, iold] only    *)
(* with old[iold] below new[inew] and not coincident with it, and it sets  *)
(* it exactly when old[iold] >= new[inew-1] or is coincident with it: the  *)
(* writes are those of a lower comparison made against new[inew-1].        *)
C18_MembershipTest == [][C18_Step]_vars

---------------------------------------------------------------------------
(* Vocabulary of the distortion node evaluated again *)

\* the distortion call returned: the second loop ended or the first loop
\* ran off the edges
DistReturned == ad.pc = "done" /\ ad.raised = "none"

\* every cell the call did not store is 0.0
UnwrittenZero ==
    \A i \in Rows(ad.matrix) : \A j \in Cols(ad.matrix) :
        <<i, j>> \notin ad.written => ad.matrix[i][j] = Zero

(* C19.  Distortion output depends only on the edges: the buffer is zero-  *)
(* filled before the first loop, so after a build that returns (end of the *)
(* second loop or undershoot) every cell not written is 0 whatever the     *)
(* buffer held, an undershoot leaves the matrix all zero, and a build into *)
(* the buffer a build with the same edges left gives the same matrix.      *)
C19_EdgesOnly ==
    DistReturned =>
        /\ UnwrittenZero
        /\ ad.undershoot => AllZero
        /\ builds >= 1 => ad.matrix = ad.buffer0

\* a build returned into a buffer that held non-zero cells, storing some
\* cells and leaving others
C19_Witness ==
    /\ DistReturned
    /\ ~ad.undershoot
    /\ \A i \in Rows(ad.buffer0) : \A j \in Cols(ad.buffer0) : ad.buffer0[i][j] # Zero
    /\ \E i \in Rows(ad.matrix) : \E j \in Cols(ad.matrix) : <<i, j>> \notin ad.written
    /\ ad.written # {}

---------------------------------------------------------------------------
(* Vocabulary of the indices of the rebin scan *)

\* call r is about to execute the body of its while loop
BodyNext(r) ==
    /\ r.pc = "while"
    /\ r.edge_old < r.edge_new
    /\ ~Coincident(r.edge_new, r.edge_old)

\* the cells call r assigned are cells of the (M,N) matrix
WritesInShape(r) ==
    \A w \in r.written : w[1] \in 0..(NBinsNew - 1) /\ w[2] \in 0..(NBinsOld - 1)

---------------------------------------------------------------------------
(* Vocabulary of the undistorted axis *)

\* no distortion: the three edge arrays are the same
Undistorted == edges_modified = edges_original /\ edges_backwards = edges_original

\* the matrix is the N x N identity
IsIdentity ==
    /\ Rows(ad.matrix) = 0..(NBins - 1)
    /\ Cols(ad.matrix) = 0..(NBins - 1)
    /\ \A i \in Rows(ad.matrix) : \A j \in Cols(ad.matrix) :
          RatEq(ad.matrix[i][j], IF i = j THEN One ELSE Zero)

(* C21.  Distortion identity: with modified = backward = original, strictly *)
(* increasing, the call ends without raising and the matrix it leaves is    *)
(* the N x N identity.                                                      *)
C21_Identity ==
    (Undistorted /\ ad.pc = "done") =>
        /\ ad.raised = "none"
        /\ ~ad.undershoot
        /\ IsIdentity

\* the call returned on an undistorted axis of three bins or more
C21_Witness ==
    /\ Undistorted
    /\ ad.pc = "done"
    /\ ad.raised = "none"
    /\ NBins >= 3
    /\ IsIdentity

---------------------------------------------------------------------------
(* Vocabulary of the shape of the rebin matrix *)

\* adjacent new edges are further apart than k times the tolerance
NewSeparated(k) ==
    \A i \in 0..(NBinsNew - 1) : FurtherApart(At(edges_new, i), At(edges_new, i + 1), k)

\* the columns of the 1-entries of row i of mat
Run(mat, i) == {j \in Cols(mat) : mat[i][j] = 1}

First(S) == CHOOSE x \in S : \A y \in S : x <= y

Last(S) == CHOOSE x \in S : \A y \in S : y <= x

\* every row has a non-empty contiguous run of 1-entries and the run of each
\* row starts right after the run of the row above
Staircase(mat) ==
    \A i \in Rows(mat) :
        /\ Run(mat, i) # {}
        /\ Run(mat, i) = First(Run(mat, i))..Last(Run(mat, i))
        /\ (i + 1) \in Rows(mat) =>
              /\ Run(mat, i + 1) # {}
              /\ First(Run(mat, i + 1)) = Last(Run(mat, i)) + 1

\* the calls of the two paths that returned into a zero-filled buffer
Built == {r \in RebinCalls : r.pc = "done" /\ r.raised = "none" /\ ZeroFilled(r)}

(* C22.  Rebin staircase shape: after a successful build into a zeroed     *)
(* buffer with adjacent new edges further apart than the tolerance, the    *)
(* 1-entries of each row are a non-empty contiguous run of columns and the *)
(* run of row i+1 starts at the column after the last column of row i.     *)
C22_StaircaseAsClaimed ==
    NewSeparated(1) => \A r \in Built : Staircase(r.rebin_matrix)

---------------------------------------------------------------------------
(* Vocabulary of the binding of the meta-nodes *)

\* the connections of the meta-node, as Enter remembers them
Links == IF meta.kind = "Rebin" THEN <<meta.matrix>> ELSE <<meta.Energy, meta.RelSigma>>

\* the lengths of the constituent node lists
Lengths ==
    IF meta.kind = "Rebin"
    THEN {Len(meta.VectorMatrixProductList), Len(meta.RebinMatrixList)}
    ELSE {Len(meta.BinCenterList), Len(meta.EnergyResolutionMatrixBCList),
          Len(meta.EnergyResolutionSigmaRelABCList)}

\* every input is connected to the node of its own position
Paired == \A l \in 1..Len(Links) : \A i \in 1..Len(Links[l]) : Links[l][i] = i

\* the last call was _bind_outputs
Bound == meta.kind # "none" /\ meta.last = "_bind_outputs"

(* C23.  Meta-node binding: _bind_outputs of Rebin and of EnergyResolution *)
(* compares the lengths of the node lists first; when they differ it       *)
(* raises ConnectionError and has made no connection; when they are equal  *)
(* and no connection fails it has connected the i-th nodes to each other   *)
(* for every i; a Rebin constructed non-bare holds one RebinMatrix bound   *)
(* to one VectorMatrixProduct.                                             *)
C23_Binding ==
    /\ (Bound /\ Cardinality(Lengths) > 1) =>
          (meta.raised = "ConnectionError" /\ Links = meta.before)
    /\ (Bound /\ Cardinality(Lengths) = 1 /\ meta.raised = "none") => Paired
    /\ (meta.kind = "Rebin" /\ meta.last = "__init__" /\ ~meta.bare) =>
          /\ meta.raised = "none"
          /\ Len(meta.RebinMatrixList) = 1
          /\ Len(meta.VectorMatrixProductList) = 1
          /\ meta.matrix = <<1>>

=============================================================================
